---- MODULE Spec2Model ----
(***************************************************************************)
(* A model of app.py: the SystemMonitor collectors, the byte formatter,    *)
(* the snapshot aggregator get_all_info and the /api/system_info handler.  *)
(*                                                                         *)
(* Every collector is a function of the answers the operating system       *)
(* gives to the queries it makes (psutil / platform calls).  Those answers *)
(* are the inputs of the model; a race between two queries is two answers  *)
(* that disagree.  A call either returns a value or raises:                 *)
(*     [ok |-> TRUE,  value |-> v, exc |-> "", line |-> 0]                  *)
(*     [ok |-> FALSE, value |-> <<>>, exc |-> kind, line |-> source line]   *)
(*                                                                         *)
(* Byte counts reach 1024^5 and beyond, so a number is kept as its         *)
(* sequence of base-1024 digits, least significant first.                  *)
(***************************************************************************)
EXTENDS Integers, Sequences, FiniteSets, TLC

VARIABLES
    pc,        \* where the call or the request in progress stands
    arg,       \* the answers of the OS read by the collector that ran last
    ret,       \* what the call that ran last returned or raised
    snapshot,  \* the dict get_all_info, or the collector called alone, is building
    response,  \* the HTTP response of the request that ended last
    clock,     \* the number of requests that have arrived
    now,       \* the time of the host, in milliseconds
    samples,   \* the CPU samples the get_cpu_info call in progress took
    calls,     \* the calls made for the request in progress, per function
    pmap       \* psutil's cache of Process objects, per pid

vars == <<pc, arg, ret, snapshot, response, clock, now, samples, calls, pmap>>

----------------------------------------------------------------------------
(* Bounds of the model.                                                    *)

\* longest base-1024 digit string given to _format_bytes (7 digits pass PB)
MaxDigits == 7

\* number of mount points the host may have
MaxParts == 3

\* number of network interfaces the host may have
MaxIfaces == 3

\* number of processes enumerated when get_process_info is called directly
MaxProcs == 3

\* number of processes a host may run beyond the top_n of a capture
MaxBeyond == 2

\* number of requests the server receives
MaxRequests == 2

\* number of cores the host may have
MaxCores == 2

\* longest time, in milliseconds, by which a sleep may overrun its interval
MaxLate == 1

\* number of requests the server handles at the same time, a thread each
MaxThreads == 2

\* number of processes running on the host while those requests are served
MaxShared == 2

\* time, in milliseconds, that passes while those requests are served
MaxTime == 2

----------------------------------------------------------------------------
(* Small helpers.                                                          *)

Min(a, b) == IF a < b THEN a ELSE b

Max(a, b) == IF a > b THEN a ELSE b

Returned(v) == [ok |-> TRUE, value |-> v, exc |-> "", line |-> 0]

Raised(kind, ln) == [ok |-> FALSE, value |-> <<>>, exc |-> kind, line |-> ln]

NoValue == [type |-> "NoneType", digits |-> <<>>]

\* the functions a request may call: get_all_info (line 182) and the six
\* collectors it calls (lines 165-170)
Collectors == {"system", "cpu", "memory", "disk", "network", "processes"}

NoCalls == [f \in Collectors \cup {"get_all_info"} |-> 0]

\* one more call of f
Called(f) == [calls EXCEPT ![f] = @ + 1]

NoResponse == [status |-> 0, body |-> <<>>]

----------------------------------------------------------------------------
(* Python values handed to _format_bytes.                                  *)

PyInt(d) == [type |-> "int", digits |-> d]

PyFloat(d) == [type |-> "float", digits |-> d]

\* bool is a subclass of int: True is the number 1, False the number 0
PyBool(b) == [type |-> "bool", digits |-> IF b THEN <<1>> ELSE <<0>>]

PyStr == [type |-> "str", digits |-> <<>>]

PyList == [type |-> "list", digits |-> <<>>]

PyNone == NoValue

----------------------------------------------------------------------------
(* _format_bytes, lines 151-159.                                           *)

Base == 1024

\* the unit list with TB left out (a variant C5 tells apart)
Units_NoTB == <<"B", "KB", "MB", "GB">>

\* the units the loop walks through (line 155)
Units == <<"B", "KB", "MB", "GB", "TB">>

\* a type test that takes a bool for a non-number (a variant C6 tells apart)
IsNumber_IntOnly(v) == v.type \in {"int", "float"}

\* isinstance(bytes_value, (int, float)), line 153; a bool is an int
IsNumber(v) == v.type \in {"int", "float", "bool"}

\* bytes_value < 1024 (line 156): no digit above the lowest is set
LessThan1024(whole) == \A i \in 2..Len(whole) : whole[i] = 0

\* f"{bytes_value:.2f} {unit}": the value rendered and its unit.  whole is
\* the integer part of the value and frac its fraction, as base-1024 digits
\* (frac most significant first); the two decimals are a function of both.
Formatted(whole, frac, unit) ==
    [kind |-> "value", unit |-> unit, whole |-> whole, frac |-> frac]

NotAvailable == [kind |-> "N/A", unit |-> "", whole |-> <<>>, frac |-> <<>>]

RECURSIVE FormatLoop(_, _, _)
\* the for loop of lines 155-158, at unit number i, and line 159 after it
FormatLoop(whole, frac, i) ==
    IF i > Len(Units) THEN Formatted(whole, frac, "PB")
    ELSE IF LessThan1024(whole) THEN Formatted(whole, frac, Units[i])
    ELSE FormatLoop(Tail(whole), <<Head(whole)>> \o frac, i + 1)

FormatBytes(bytes_value) ==
    IF ~IsNumber(bytes_value) THEN NotAvailable
    ELSE FormatLoop(bytes_value.digits, <<>>, 1)

----------------------------------------------------------------------------
(* SpecFmt: _format_bytes called on every kind of argument.                *)

DigitSet == {0, 1, Base - 1}

DigitStrings(n) == UNION {[1..k -> DigitSet] : k \in 0..n}

FmtInputs ==
    {PyInt(d) : d \in DigitStrings(MaxDigits)}
    \cup {PyFloat(d) : d \in DigitStrings(2)}
    \cup {PyBool(TRUE), PyBool(FALSE), PyStr, PyList, PyNone}

InitFmt ==
    /\ pc = "call"
    /\ arg \in FmtInputs
    /\ ret = NotAvailable
    /\ snapshot = <<>>
    /\ response = NoResponse
    /\ clock = 0
    /\ now = 0
    /\ samples = <<>>
    /\ calls = NoCalls
    /\ pmap = <<>>

FormatBytesCall ==
    /\ pc = "call"
    /\ ret' = FormatBytes(arg)
    /\ pc' = "formatted"
    /\ UNCHANGED <<arg, snapshot, response, clock, now, samples, calls, pmap>>

NextFmt == FormatBytesCall

SpecFmt == InitFmt /\ [][NextFmt]_vars

----------------------------------------------------------------------------
(* get_disk_info, lines 45-88.                                             *)
(*                                                                         *)
(* The answers of the OS: os.partitions, the mount points listed by        *)
(* psutil.disk_partitions(); os.usage[m], what psutil.disk_usage(m) does   *)
(* for mount point m (the mount's accessibility does not change during a   *)
(* capture); os.io, the answer of psutil.disk_io_counters().               *)

MountNames == <<"/", "/boot", "/home", "/mnt/usb", "/srv">>

RootMount == MountNames[1]

Mounts == {MountNames[i] : i \in 1..MaxParts}

Zero == <<0>>

OneGiB == <<0, 0, 0, 1>>

TwoGiB == <<0, 0, 0, 2>>

\* psutil.disk_usage(path): a usage tuple, or the error raised
UsageAnswer(status) ==
    [status |-> status, total |-> TwoGiB, used |-> OneGiB, free |-> OneGiB,
     percent |-> 50]

UsageStatuses == {"ok", "PermissionError", "OSError"}

\* psutil.disk_io_counters(): None on a platform without counters
NoIoCounters == [present |-> FALSE, read_bytes |-> Zero, write_bytes |-> Zero]

IoCounters(r, w) == [present |-> TRUE, read_bytes |-> r, write_bytes |-> w]

IoAnswers == {NoIoCounters, IoCounters(Zero, Zero), IoCounters(OneGiB, Zero)}

\* except (PermissionError, OSError), line 67
DiskCaught == {"PermissionError", "OSError"}

\* lines 55-66
PartitionEntry(mountpoint, usage) ==
    [device |-> mountpoint, mountpoint |-> mountpoint, fstype |-> "ext4",
     total |-> usage.total, used |-> usage.used, free |-> usage.free,
     percent |-> usage.percent,
     total_formatted |-> FormatBytes(PyInt(usage.total)),
     used_formatted |-> FormatBytes(PyInt(usage.used)),
     free_formatted |-> FormatBytes(PyInt(usage.free))]

RECURSIVE PartitionLoop(_, _, _)
\* the for loop of lines 52-69 over the partitions left, with the entries
\* appended so far
PartitionLoop(os, left, partitions) ==
    IF left = <<>> THEN Returned(partitions)
    ELSE LET usage == UsageAnswer(os.usage[Head(left)])
         IN  IF usage.status = "ok"
             THEN PartitionLoop(os, Tail(left),
                      Append(partitions, PartitionEntry(Head(left), usage)))
             ELSE IF usage.status \in DiskCaught
             THEN PartitionLoop(os, Tail(left), partitions)
             ELSE Raised(usage.status, 54)

\* lines 72-80
MainDisk(disk) ==
    [total |-> disk.total, used |-> disk.used, free |-> disk.free,
     percent |-> disk.percent,
     total_formatted |-> FormatBytes(PyInt(disk.total)),
     used_formatted |-> FormatBytes(PyInt(disk.used)),
     free_formatted |-> FormatBytes(PyInt(disk.free))]

\* an io section that formats the 0 it substitutes (a variant C9 tells apart)
IoSection_ZeroFormatted(io_counters) ==
    LET r == IF io_counters.present THEN io_counters.read_bytes ELSE Zero
        w == IF io_counters.present THEN io_counters.write_bytes ELSE Zero
    IN  [read_bytes |-> r, write_bytes |-> w,
         read_bytes_formatted |-> FormatBytes(PyInt(r)),
         write_bytes_formatted |-> FormatBytes(PyInt(w))]

\* lines 81-86: "x if io_counters else ..."; a counters tuple is never empty,
\* so only None takes the else branches
IoSection(io_counters) ==
    [read_bytes |->
        IF io_counters.present THEN io_counters.read_bytes ELSE Zero,
     write_bytes |->
        IF io_counters.present THEN io_counters.write_bytes ELSE Zero,
     read_bytes_formatted |->
        IF io_counters.present
        THEN FormatBytes(PyInt(io_counters.read_bytes)) ELSE NotAvailable,
     write_bytes_formatted |->
        IF io_counters.present
        THEN FormatBytes(PyInt(io_counters.write_bytes)) ELSE NotAvailable]

GetDiskInfo(os) ==
    LET disk == UsageAnswer(os.usage[RootMount])
    IN  IF disk.status # "ok" THEN Raised(disk.status, 47)
        ELSE LET loop == PartitionLoop(os, os.partitions, <<>>)
             IN  IF ~loop.ok THEN loop
                 ELSE Returned([main_disk |-> MainDisk(disk),
                                io |-> IoSection(os.io),
                                partitions |-> loop.value])

----------------------------------------------------------------------------
(* SpecDisk: get_disk_info on every host with up to MaxParts mounts.       *)

\* the sequences without repetition over the set S
Arrangements(S) ==
    {q \in UNION {[1..k -> S] : k \in 0..Cardinality(S)} :
        \A i, j \in 1..Len(q) : i # j => q[i] # q[j]}

DiskAnswers(mounts) ==
    [partitions : Arrangements(mounts),
     usage : [mounts \cup {RootMount} -> UsageStatuses],
     io : IoAnswers]

InitDisk ==
    /\ pc = "call"
    /\ arg \in DiskAnswers(Mounts)
    /\ ret = Returned(<<>>)
    /\ snapshot = <<>>
    /\ response = NoResponse
    /\ clock = 0
    /\ now = 0
    /\ samples = <<>>
    /\ calls = NoCalls
    /\ pmap = <<>>

GetDiskInfoCall ==
    /\ pc = "call"
    /\ ret' = GetDiskInfo(arg)
    /\ pc' = "done"
    /\ UNCHANGED <<arg, snapshot, response, clock, now, samples, calls, pmap>>

NextDisk == GetDiskInfoCall

SpecDisk == InitDisk /\ [][NextDisk]_vars

----------------------------------------------------------------------------
(* get_network_info, lines 90-123.                                         *)
(*                                                                         *)
(* The answers of the OS: os.total, whether psutil.net_io_counters() gave  *)
(* counters (it gives None on a host where no interface has any);          *)
(* os.stats, the interfaces of psutil.net_if_stats() in the order of the   *)
(* dict; os.isup[n], the isup flag of interface n; os.pernic[n], whether   *)
(* the psutil.net_io_counters(pernic=True) made for interface n (a fresh   *)
(* query per interface, line 99) holds counters for n.                     *)

IfaceNames == <<"lo", "eth0", "wlan0", "docker0", "tun0">>

Ifaces == {IfaceNames[i] : i \in 1..MaxIfaces}

\* a loop without the isup test (a variant C10 tells apart)
IsActive_Always(os, interface) == TRUE

\* if stats.isup, line 97
IsActive(os, interface) == os.isup[interface]

\* psutil.net_io_counters(pernic=True).get(interface), line 99: the counters
\* of the interface, or None
InterfaceIo(os, interface) ==
    [present |-> os.pernic[interface], bytes_sent |-> OneGiB,
     bytes_recv |-> TwoGiB]

\* lines 101-109
InterfaceEntry(interface, interface_io) ==
    [name |-> interface, speed |-> 1000, mtu |-> 1500,
     bytes_sent |-> interface_io.bytes_sent,
     bytes_recv |-> interface_io.bytes_recv,
     bytes_sent_formatted |-> FormatBytes(PyInt(interface_io.bytes_sent)),
     bytes_recv_formatted |-> FormatBytes(PyInt(interface_io.bytes_recv))]

RECURSIVE InterfaceLoop(_, _, _)
\* the for loop of lines 96-111 over the interfaces left, with the entries
\* appended so far; a counters tuple is never empty, so "if interface_io"
\* (line 100) fails only for None
InterfaceLoop(os, left, interfaces) ==
    IF left = <<>> THEN interfaces
    ELSE IF IsActive(os, Head(left))
                /\ InterfaceIo(os, Head(left)).present
    THEN InterfaceLoop(os, Tail(left),
            Append(interfaces,
                   InterfaceEntry(Head(left), InterfaceIo(os, Head(left)))))
    ELSE InterfaceLoop(os, Tail(left), interfaces)

\* lines 114-121, of the counters net_io
NetTotal ==
    [bytes_sent |-> OneGiB, bytes_recv |-> TwoGiB,
     packets_sent |-> 10, packets_recv |-> 20,
     bytes_sent_formatted |-> FormatBytes(PyInt(OneGiB)),
     bytes_recv_formatted |-> FormatBytes(PyInt(TwoGiB))]

\* the loop runs first; net_io.bytes_sent (line 115) then fails on None
GetNetworkInfo(os) ==
    LET interfaces == InterfaceLoop(os, os.stats, <<>>)
    IN  IF ~os.total THEN Raised("AttributeError", 115)
        ELSE Returned([total |-> NetTotal, interfaces |-> interfaces])

----------------------------------------------------------------------------
(* SpecNet: get_network_info on every host with up to MaxIfaces            *)
(* interfaces.                                                             *)

NetAnswers(ifaces) ==
    [total : BOOLEAN,
     stats : Arrangements(ifaces),
     isup : [ifaces -> BOOLEAN],
     pernic : [ifaces -> BOOLEAN]]

InitNet ==
    /\ pc = "call"
    /\ arg \in NetAnswers(Ifaces)
    /\ ret = Returned(<<>>)
    /\ snapshot = <<>>
    /\ response = NoResponse
    /\ clock = 0
    /\ now = 0
    /\ samples = <<>>
    /\ calls = NoCalls
    /\ pmap = <<>>

GetNetworkInfoCall ==
    /\ pc = "call"
    /\ ret' = GetNetworkInfo(arg)
    /\ pc' = "done"
    /\ UNCHANGED <<arg, snapshot, response, clock, now, samples, calls, pmap>>

NextNet == GetNetworkInfoCall

SpecNet == InitNet /\ [][NextNet]_vars

----------------------------------------------------------------------------
(* get_process_info, lines 125-149.                                        *)
(*                                                                         *)
(* The answers of the OS: the sequence psutil.process_iter yields, each    *)
(* process with the info read at enumeration (pid, cpu_percent, which is   *)
(* None when the OS denied it) and with detail, what proc.memory_info()    *)
(* does when the loop reaches the process later.                           *)

\* cpu_percent is never negative: -1 stands for None
CpuNone == 0 - 1

Proc(pid, cpu, detail) == [pid |-> pid, cpu_percent |-> cpu, detail |-> detail]

\* a key without the "or 0": None ranks below every number (a variant C13
\* tells apart)
SortKey_NoneLowest(p) == p.cpu_percent

\* key=lambda p: p.info['cpu_percent'] or 0, line 129
SortKey(p) == IF p.cpu_percent = CpuNone THEN 0 ELSE p.cpu_percent

\* a sort without reverse=True (a variant C4 tells apart)
ComesBefore_Ascending(a, b) == SortKey(a) <= SortKey(b)

\* reverse=True, line 129: a stays before b, met later, unless b's key is
\* greater (sorted is stable, also when reversed)
ComesBefore(a, b) == SortKey(a) >= SortKey(b)

RECURSIVE InsertSorted(_, _)
InsertSorted(sorted, p) ==
    IF sorted = <<>> THEN <<p>>
    ELSE IF ComesBefore(Head(sorted), p)
    THEN <<Head(sorted)>> \o InsertSorted(Tail(sorted), p)
    ELSE <<p>> \o sorted

RECURSIVE SortedByCpu(_)
\* sorted(psutil.process_iter(...), key=..., reverse=True), lines 128-129
SortedByCpu(procs) ==
    IF procs = <<>> THEN <<>>
    ELSE InsertSorted(SortedByCpu(SubSeq(procs, 1, Len(procs) - 1)),
                      procs[Len(procs)])

\* a selection without the [:top_n] cut (a variant C3 tells apart)
Slice_Whole(seq, top_n) == seq

\* [:top_n], line 129, for top_n >= 0
Slice(seq, top_n) == SubSeq(seq, 1, Min(top_n, Len(seq)))

\* an except clause without ZombieProcess (a variant C2 tells apart)
ProcCaught_NoZombie == {"NoSuchProcess", "AccessDenied"}

\* except (psutil.NoSuchProcess, psutil.AccessDenied, psutil.ZombieProcess),
\* line 147
ProcCaught == {"NoSuchProcess", "AccessDenied", "ZombieProcess"}

\* lines 138-146
ProcessEntry(proc) ==
    [pid |-> proc.pid, name |-> "proc", username |-> "user",
     cpu_percent |-> proc.cpu_percent, memory_percent |-> 1,
     memory_rss |-> FormatBytes(PyInt(OneGiB)),
     create_time |-> "2024-01-01 00:00:00"]

RECURSIVE ProcessLoop(_, _)
\* the for loop of lines 128-148 over the selected processes left, with the
\* entries appended so far; proc.memory_info() (line 135) is the only call
\* of the body that raises
ProcessLoop(left, processes) ==
    IF left = <<>> THEN Returned(processes)
    ELSE IF Head(left).detail = "ok"
    THEN ProcessLoop(Tail(left), Append(processes, ProcessEntry(Head(left))))
    ELSE IF Head(left).detail \in ProcCaught
    THEN ProcessLoop(Tail(left), processes)
    ELSE Raised(Head(left).detail, 135)

\* the processes the loop goes through
Selected(procs, top_n) == Slice(SortedByCpu(procs), top_n)

GetProcessInfo(procs, top_n) == ProcessLoop(Selected(procs, top_n), <<>>)

----------------------------------------------------------------------------
(* SpecProc: get_process_info(top_n) on every enumeration of up to         *)
(* MaxProcs processes and every top_n up to one more than that.            *)

CpuValues == {CpuNone} \cup 0..(MaxProcs - 1)

FailureKinds == <<"OSError", "ZombieProcess", "NoSuchProcess", "AccessDenied">>

\* what memory_info() of process pid may do: succeed, or fail the way this
\* process fails (OSError is a failure the loop does not expect)
DetailAnswers(pid) == <<"ok", FailureKinds[((pid - 1) % 4) + 1]>>

\* the enumerations of up to n processes; the pid of a process is its place
Enumerations(n) ==
    UNION {{[i \in 1..k |-> Proc(i, f[i][1], DetailAnswers(i)[f[i][2]])] :
                f \in [1..k -> CpuValues \X (1..2)]}
           : k \in 0..n}

InitProc ==
    /\ pc = "call"
    /\ arg \in [procs : Enumerations(MaxProcs), top_n : 0..(MaxProcs + 1)]
    /\ ret = Returned(<<>>)
    /\ snapshot = <<>>
    /\ response = NoResponse
    /\ clock = 0
    /\ now = 0
    /\ samples = <<>>
    /\ calls = NoCalls
    /\ pmap = <<>>

GetProcessInfoCall ==
    /\ pc = "call"
    /\ ret' = GetProcessInfo(arg.procs, arg.top_n)
    /\ pc' = "done"
    /\ UNCHANGED <<arg, snapshot, response, clock, now, samples, calls, pmap>>

NextProc == GetProcessInfoCall

SpecProc == InitProc /\ [][NextProc]_vars

----------------------------------------------------------------------------
(* get_system_info, get_cpu_info and get_memory_info, lines 12-43.         *)
(*                                                                         *)
(* os.fault is an error a platform or psutil query raises that the         *)
(* collector has no handler for ("" when there is none).                   *)

\* lines 14-21
GetSystemInfo(os) ==
    IF os.fault # "" THEN Raised(os.fault, 15)
    ELSE Returned([system |-> "Linux", node |-> "host", release |-> "6.1",
                   version |-> "#1", machine |-> "x86_64",
                   processor |-> "x86_64"])

NoFreq == [present |-> FALSE, current |-> 0]

Freq(mhz) == [present |-> TRUE, current |-> mhz]

\* lines 25-30.  Line 28 queries psutil.cpu_freq() twice: os.freq_test is
\* the answer tested by the condition, os.freq_read the answer whose
\* .current is read afterwards.
GetCpuInfo(os) ==
    IF os.fault # "" THEN Raised(os.fault, 26)
    ELSE IF ~os.freq_test.present
    THEN Returned([cpu_percent |-> os.cpu_percent, cpu_count |-> os.cpu_count,
                   cpu_freq |-> [kind |-> "N/A", current |-> 0],
                   per_cpu |-> os.per_cpu])
    ELSE IF ~os.freq_read.present THEN Raised("AttributeError", 28)
    ELSE Returned([cpu_percent |-> os.cpu_percent, cpu_count |-> os.cpu_count,
                   cpu_freq |-> [kind |-> "value",
                                 current |-> os.freq_read.current],
                   per_cpu |-> os.per_cpu])

\* lines 34-43
GetMemoryInfo(os) ==
    IF os.fault # "" THEN Raised(os.fault, 34)
    ELSE Returned([total |-> os.total, available |-> os.available,
                   used |-> os.used, percent |-> os.percent,
                   total_formatted |-> FormatBytes(PyInt(os.total)),
                   available_formatted |-> FormatBytes(PyInt(os.available)),
                   used_formatted |-> FormatBytes(PyInt(os.used))])

Faults == {"", "OSError"}

SystemAnswers == [fault : Faults]

CpuAnswers ==
    [fault : Faults, cpu_percent : {25}, cpu_count : {2},
     freq_test : {NoFreq, Freq(2400)}, freq_read : {NoFreq, Freq(2400)},
     per_cpu : {<<20, 30>>}]

MemoryAnswers ==
    [fault : Faults, total : {TwoGiB}, available : {OneGiB}, used : {OneGiB},
     percent : {50}]

----------------------------------------------------------------------------
(* SpecCpu: get_cpu_info step by step.  The dict display of lines 25-30    *)
(* evaluates its four values in the order written; each of the two         *)
(* psutil.cpu_percent(interval=0.1) calls blocks while it samples.         *)

\* interval=0.1, lines 26 and 29, in milliseconds
SampleInterval == 100

\* psutil.cpu_percent(interval, percpu) called at time now: with an
\* interval above zero it reads the CPU times, sleeps for the interval (the
\* sleep may overrun by late) and reads them again; without one it does not
\* block
Sample(percpu, interval, late) ==
    [percpu |-> percpu, interval |-> interval, start |-> now,
     end |-> IF interval > 0 THEN now + interval + late ELSE now]

\* the hosts get_cpu_info is called on: up to MaxCores cores, a frequency
\* that may be reported or not, and differently, by the two queries of
\* line 28
CpuHosts ==
    {[fault |-> f, cpu_percent |-> 25, cpu_count |-> n, freq_test |-> t,
      freq_read |-> r, per_cpu |-> [i \in 1..n |-> 25]] :
        f \in Faults, n \in 1..MaxCores, t \in {NoFreq, Freq(2400)},
        r \in {NoFreq, Freq(2400), Freq(1200)}}

InitCpu ==
    /\ pc = "line26"
    /\ arg \in CpuHosts
    /\ ret = Returned(<<>>)
    /\ snapshot = <<>>
    /\ response = NoResponse
    /\ clock = 0
    /\ now = 0
    /\ samples = <<>>
    /\ calls = NoCalls
    /\ pmap = <<>>

\* line 26: "cpu_percent": psutil.cpu_percent(interval=0.1)
AggregateSample ==
    /\ pc = "line26"
    /\ IF arg.fault # ""
       THEN /\ ret' = Raised(arg.fault, 26)
            /\ pc' = "raised"
            /\ UNCHANGED <<snapshot, now, samples>>
       ELSE \E late \in 0..MaxLate :
            LET s == Sample(FALSE, SampleInterval, late)
            IN  /\ samples' = Append(samples, s)
                /\ now' = s.end
                /\ snapshot' = ("cpu_percent" :> arg.cpu_percent)
                /\ pc' = "line27"
                /\ UNCHANGED ret
    /\ UNCHANGED <<arg, response, clock, calls, pmap>>

\* line 27: "cpu_count": psutil.cpu_count()
CpuCount ==
    /\ pc = "line27"
    /\ snapshot' = snapshot @@ ("cpu_count" :> arg.cpu_count)
    /\ pc' = "line28"
    /\ UNCHANGED <<arg, ret, response, clock, now, samples, calls, pmap>>

\* line 28, the condition: ... if psutil.cpu_freq() else "N/A"
FreqTest ==
    /\ pc = "line28"
    /\ IF arg.freq_test.present
       THEN /\ pc' = "line28_read"
            /\ UNCHANGED snapshot
       ELSE /\ snapshot' =
                snapshot @@ ("cpu_freq" :> [kind |-> "N/A", current |-> 0])
            /\ pc' = "line29"
    /\ UNCHANGED <<arg, ret, response, clock, now, samples, calls, pmap>>

\* line 28, the value: psutil.cpu_freq().current, a second query; None has
\* no attribute current
FreqRead ==
    /\ pc = "line28_read"
    /\ IF arg.freq_read.present
       THEN /\ snapshot' =
                snapshot @@ ("cpu_freq" :>
                    [kind |-> "value", current |-> arg.freq_read.current])
            /\ pc' = "line29"
            /\ UNCHANGED ret
       ELSE /\ ret' = Raised("AttributeError", 28)
            /\ pc' = "raised"
            /\ UNCHANGED snapshot
    /\ UNCHANGED <<arg, response, clock, now, samples, calls, pmap>>

\* line 29: "per_cpu": psutil.cpu_percent(interval=0.1, percpu=True)
PerCoreSample ==
    /\ pc = "line29"
    /\ \E late \in 0..MaxLate :
        LET s == Sample(TRUE, SampleInterval, late)
        IN  /\ samples' = Append(samples, s)
            /\ now' = s.end
    /\ snapshot' = snapshot @@ ("per_cpu" :> arg.per_cpu)
    /\ pc' = "line30"
    /\ UNCHANGED <<arg, ret, response, clock, calls, pmap>>

\* lines 25 and 30: the dict is complete and returned
ReturnCpuInfo ==
    /\ pc = "line30"
    /\ ret' = Returned(snapshot)
    /\ pc' = "done"
    /\ UNCHANGED <<arg, snapshot, response, clock, now, samples, calls, pmap>>

NextCpu ==
    \/ AggregateSample
    \/ CpuCount
    \/ FreqTest
    \/ FreqRead
    \/ PerCoreSample
    \/ ReturnCpuInfo

SpecCpu == InitCpu /\ [][NextCpu]_vars

\* the steps amount to GetCpuInfo, the collector as get_all_info calls it
StepsAgreeWithGetCpuInfo ==
    pc \in {"done", "raised"} => ret = GetCpuInfo(arg)

----------------------------------------------------------------------------
(* get_all_info (lines 161-171) and api_system_info (lines 180-182).       *)
(*                                                                         *)
(* The dict display of lines 163-171 evaluates its values in the order     *)
(* written; a value that raises ends the evaluation, and the values        *)
(* computed so far are dropped with it.                                    *)

\* top_n=10, line 125: get_all_info calls get_process_info() without one
DefaultTopN == 10

\* a dict without the network key (a variant C7 tells apart)
StageOrder_NoNetwork ==
    <<"timestamp", "system", "cpu", "memory", "disk", "processes">>

\* the keys of the dict, lines 164-170
StageOrder ==
    <<"timestamp", "system", "cpu", "memory", "disk", "network", "processes">>

StageIndex(key) == CHOOSE i \in 1..Len(StageOrder) : StageOrder[i] = key

\* what follows the value of key: the next value, or the return
AfterStage(key) ==
    IF \E i \in 1..(Len(StageOrder) - 1) : StageOrder[i] = key
    THEN StageOrder[StageIndex(key) + 1]
    ELSE "returned"

\* an aggregator that leaves out the value of a collector that raised and
\* goes on (a variant C8 tells apart)
Stage_SkipFailed(key, r) ==
    /\ ret' = r
    /\ snapshot' = IF r.ok THEN snapshot @@ (key :> r.value) ELSE snapshot
    /\ pc' = AfterStage(key)

\* one value of the dict: the collector's result r is stored under key, or
\* its exception leaves get_all_info
Stage(key, r) ==
    /\ ret' = r
    /\ IF r.ok
       THEN /\ snapshot' = snapshot @@ (key :> r.value)
            /\ pc' = AfterStage(key)
       ELSE /\ snapshot' = <<>>
            /\ pc' = "raised"

\* the answers of the OS to get_process_info during a capture: up to
\* DefaultTopN + MaxBeyond processes, their cpu_percent rising with the pid
\* or all equal, and memory_info() failing with one kind of error for the
\* processes of a set of pids
FailingPids == SUBSET {1, 2, DefaultTopN + 1}

RisingAndFlat == {0, 1}

CaptureEnumerations ==
    {[i \in 1..n |-> Proc(i, i * slope,
                          IF i \in failing THEN kind ELSE "ok")] :
        n \in 0..(DefaultTopN + MaxBeyond), slope \in RisingAndFlat,
        failing \in FailingPids,
        kind \in {FailureKinds[k] : k \in 1..Len(FailureKinds)}}

InitAll ==
    /\ pc = "idle"
    /\ arg = <<>>
    /\ ret = Returned(<<>>)
    /\ snapshot = <<>>
    /\ response = NoResponse
    /\ clock = 0
    /\ now = 0
    /\ samples = <<>>
    /\ calls = NoCalls
    /\ pmap = <<>>

\* a request for /api/system_info arrives, after the response to the one
\* before it was sent, and is routed to api_system_info (lines 180-181)
RequestArrives ==
    /\ pc \in {"idle", "responded"}
    /\ clock < MaxRequests
    /\ clock' = clock + 1
    /\ pc' = "arrived"
    /\ snapshot' = <<>>
    /\ arg' = <<>>
    /\ ret' = Returned(<<>>)
    /\ response' = NoResponse
    /\ calls' = NoCalls
    /\ UNCHANGED <<now, samples, pmap>>

\* line 182: api_system_info calls system_monitor.get_all_info(), which
\* starts the dict display of lines 163-171
CallGetAllInfo ==
    /\ pc = "arrived"
    /\ calls' = Called("get_all_info")
    /\ pc' = StageOrder[1]
    /\ UNCHANGED <<arg, ret, snapshot, response, clock, now, samples, pmap>>

\* line 164: datetime.datetime.now().strftime(...)
TimestampStage ==
    /\ pc = "timestamp"
    /\ arg' = <<>>
    /\ Stage("timestamp", Returned(clock))
    /\ UNCHANGED <<response, clock, now, samples, calls, pmap>>

\* line 165
SystemStage ==
    /\ pc = "system"
    /\ \E os \in SystemAnswers :
        /\ arg' = os
        /\ Stage("system", GetSystemInfo(os))
    /\ calls' = Called("system")
    /\ UNCHANGED <<response, clock, now, samples, pmap>>

\* line 166
CpuStage ==
    /\ pc = "cpu"
    /\ \E os \in CpuAnswers :
        /\ arg' = os
        /\ Stage("cpu", GetCpuInfo(os))
    /\ calls' = Called("cpu")
    /\ UNCHANGED <<response, clock, now, samples, pmap>>

\* line 167
MemoryStage ==
    /\ pc = "memory"
    /\ \E os \in MemoryAnswers :
        /\ arg' = os
        /\ Stage("memory", GetMemoryInfo(os))
    /\ calls' = Called("memory")
    /\ UNCHANGED <<response, clock, now, samples, pmap>>

\* line 168
DiskStage ==
    /\ pc = "disk"
    /\ \E os \in DiskAnswers({MountNames[1], MountNames[2]}) :
        /\ arg' = os
        /\ Stage("disk", GetDiskInfo(os))
    /\ calls' = Called("disk")
    /\ UNCHANGED <<response, clock, now, samples, pmap>>

\* line 169
NetworkStage ==
    /\ pc = "network"
    /\ \E os \in NetAnswers({IfaceNames[1]}) :
        /\ arg' = os
        /\ Stage("network", GetNetworkInfo(os))
    /\ calls' = Called("network")
    /\ UNCHANGED <<response, clock, now, samples, pmap>>

\* line 170
ProcessesStage ==
    /\ pc = "processes"
    /\ \E procs \in CaptureEnumerations :
        /\ arg' = [procs |-> procs, top_n |-> DefaultTopN]
        /\ Stage("processes", GetProcessInfo(procs, DefaultTopN))
    /\ calls' = Called("processes")
    /\ UNCHANGED <<response, clock, now, samples, pmap>>

\* line 182: get_all_info returned the dict and jsonify serialises it
RespondSnapshot ==
    /\ pc = "returned"
    /\ response' = [status |-> 200, body |-> snapshot]
    /\ pc' = "responded"
    /\ UNCHANGED <<arg, ret, snapshot, clock, now, samples, calls, pmap>>

\* line 182: the exception leaves api_system_info, which has no handler,
\* and the request fails (Flask answers 500)
RespondError ==
    /\ pc = "raised"
    /\ response' = [status |-> 500, body |-> <<>>]
    /\ pc' = "responded"
    /\ UNCHANGED <<arg, ret, snapshot, clock, now, samples, calls, pmap>>

Next ==
    \/ RequestArrives
    \/ CallGetAllInfo
    \/ TimestampStage
    \/ SystemStage
    \/ CpuStage
    \/ MemoryStage
    \/ DiskStage
    \/ NetworkStage
    \/ ProcessesStage
    \/ RespondSnapshot
    \/ RespondError

Spec == InitAll /\ [][Next]_vars

----------------------------------------------------------------------------
(* SpecShared: requests served by threads of one server process (app.run,  *)
(* line 708, serves each request in a thread of its own; system_monitor,   *)
(* line 174, and the psutil module are shared by all of them).             *)
(*                                                                         *)
(* SystemMonitor has no attributes, and the collectors keep what they read *)
(* in locals.  The state the captures share is psutil's: process_iter      *)
(* (line 128) yields the Process objects of a module-wide cache, and the   *)
(* cpu_percent it reads for each of them is Process.cpu_percent() without  *)
(* an interval, computed against the CPU times the same object kept at its *)
(* previous call.  Only the "processes" value of a capture is modelled     *)
(* here: pc, snapshot (the process infos enumerated so far) and ret are    *)
(* per thread.                                                             *)

Threads == 1..MaxThreads

SharedPids == 1..MaxShared

\* the share of a CPU, in percent, a process uses throughout
CpuRates == {0, 10, 50}

\* the hosts: the same processes with the same load at all times
SharedHosts == [rate : [SharedPids -> CpuRates]]

\* the CPU time the process has used by time t, in percent-milliseconds
ProcCpuTime(host, pid, t) == host.rate[pid] * t

\* Process.cpu_percent(interval=None) at time t, with cache the Process
\* objects psutil holds: 0.0 at the first call on the object and when no
\* time has passed since the previous one, else the CPU time used since the
\* previous call over the time passed
CpuPercentSinceLast(host, cache, pid, t) ==
    IF pid \notin DOMAIN cache THEN 0
    ELSE LET delta_proc == ProcCpuTime(host, pid, t) - cache[pid].proc
             delta_time == t - cache[pid].sys
         IN  IF delta_time = 0 THEN 0 ELSE delta_proc \div delta_time

\* the cache after that call: the object of pid keeps the times it read
Remembered(host, cache, pid, t) ==
    [p \in DOMAIN cache \cup {pid} |->
        IF p = pid THEN [sys |-> t, proc |-> ProcCpuTime(host, pid, t)]
        ELSE cache[p]]

InitShared ==
    /\ pc = [t \in Threads |-> "idle"]
    /\ arg \in SharedHosts
    /\ ret = [t \in Threads |-> Returned(<<>>)]
    /\ snapshot = [t \in Threads |-> <<>>]
    /\ response = NoResponse
    /\ clock = 0
    /\ now = 0
    /\ samples = <<>>
    /\ calls = NoCalls
    /\ pmap = <<>>

\* a request arrives and its thread reaches get_process_info (line 170)
ThreadRequest(t) ==
    /\ pc[t] = "idle"
    /\ pc' = [pc EXCEPT ![t] = "iter"]
    /\ clock' = clock + 1
    /\ UNCHANGED <<arg, ret, snapshot, response, now, samples, calls, pmap>>

\* line 128: process_iter yields the next process, its info read through
\* the cached Process object
IterStep(t) ==
    /\ pc[t] = "iter"
    /\ Len(snapshot[t]) < MaxShared
    /\ LET pid == Len(snapshot[t]) + 1
       IN  /\ snapshot' = [snapshot EXCEPT ![t] =
                Append(@, Proc(pid, CpuPercentSinceLast(arg, pmap, pid, now),
                               "ok"))]
           /\ pmap' = Remembered(arg, pmap, pid, now)
    /\ UNCHANGED <<pc, arg, ret, response, clock, now, samples, calls>>

\* lines 128-149: the enumeration is over; sorted, cut and the loop
SortAndReturn(t) ==
    /\ pc[t] = "iter"
    /\ Len(snapshot[t]) = MaxShared
    /\ ret' = [ret EXCEPT ![t] = GetProcessInfo(snapshot[t], DefaultTopN)]
    /\ pc' = [pc EXCEPT ![t] = "done"]
    /\ UNCHANGED <<arg, snapshot, response, clock, now, samples, calls, pmap>>

\* time passes on the host
Tick ==
    /\ now < MaxTime
    /\ now' = now + 1
    /\ UNCHANGED <<pc, arg, ret, snapshot, response, clock, samples, calls,
                   pmap>>

NextShared ==
    \/ \E t \in Threads : ThreadRequest(t)
    \/ \E t \in Threads : IterStep(t)
    \/ \E t \in Threads : SortAndReturn(t)
    \/ Tick

SpecShared == InitShared /\ [][NextShared]_vars

----------------------------------------------------------------------------
(* Claims about _format_bytes (checked under SpecFmt).                     *)

UnitNames == <<"B", "KB", "MB", "GB", "TB", "PB">>

UnitIndex(u) == CHOOSE k \in 0..5 : UnitNames[k + 1] = u

\* the number of significant base-1024 digits of d: v < 1024^n iff
\* Significant(d) <= n
Significant(d) ==
    IF \E i \in 1..Len(d) : d[i] # 0
    THEN CHOOSE i \in 1..Len(d) : d[i] # 0 /\ \A j \in (i + 1)..Len(d) : d[j] = 0
    ELSE 0

\* the least k in 0..5 with v < 1024^(k+1), and 5 when there is none
LeastK(d) ==
    IF \E k \in 0..5 : Significant(d) <= k + 1
    THEN CHOOSE k \in 0..5 :
            /\ Significant(d) <= k + 1
            /\ \A j \in 0..(k - 1) : ~(Significant(d) <= j + 1)
    ELSE 5

RECURSIVE DigitsLeq(_, _, _)
\* v <= w, comparing digits from position i downwards
DigitsLeq(d, e, i) ==
    IF i = 0 THEN TRUE
    ELSE LET a == IF i <= Len(d) THEN d[i] ELSE 0
             b == IF i <= Len(e) THEN e[i] ELSE 0
         IN  IF a < b THEN TRUE
             ELSE IF a > b THEN FALSE
             ELSE DigitsLeq(d, e, i - 1)

NumLeq(d, e) == DigitsLeq(d, e, Max(Len(d), Len(e)))

\* 1024^k - 1 and 1024^k, the values on both sides of every unit step
StepValues ==
    {[i \in 1..k |-> Base - 1] : k \in 0..MaxDigits}
    \cup {[i \in 1..(k + 1) |-> IF i = k + 1 THEN 1 ELSE 0] : k \in 0..MaxDigits}

\* C5: for an integer byte count v, _format_bytes picks the unit number k
\* that is the least k in 0..5 with v < 1024^(k+1), and PB (k = 5) for every
\* v >= 1024^5; the unit is one of the six and never decreases as v grows
\* (compared with the values around every unit step).
C5_UnitSelection ==
    (pc = "formatted" /\ arg.type = "int") =>
        /\ ret.kind = "value"
        /\ ret.unit \in {UnitNames[i] : i \in 1..6}
        /\ UnitIndex(ret.unit) = LeastK(arg.digits)
        /\ (Significant(arg.digits) >= 6 => ret.unit = "PB")
        /\ \A w \in StepValues :
            LET other == FormatBytes(PyInt(w))
            IN  /\ NumLeq(arg.digits, w) =>
                    UnitIndex(ret.unit) <= UnitIndex(other.unit)
                /\ NumLeq(w, arg.digits) =>
                    UnitIndex(other.unit) <= UnitIndex(ret.unit)

\* a value of 1024^6 or more was formatted: it stays in PB, with an integer
\* part of 1024 or more
C5_Witness ==
    /\ pc = "formatted"
    /\ arg.type = "int"
    /\ Significant(arg.digits) = 7
    /\ ret.unit = "PB"
    /\ ~LessThan1024(ret.whole)

\* C6 as stated: every argument that is not a numeric byte count, a boolean
\* included, gives "N/A", and only numbers give a value with a unit.
C6_Original ==
    pc = "formatted" =>
        (ret.kind = "N/A" <=> arg.type \notin {"int", "float"})

\* C6 amended: "N/A" is returned exactly for the arguments that are not
\* instances of int or float; a boolean is an instance of int and is
\* formatted as the byte count 0 or 1.
C6_NotAvailableIffNotIntOrFloatInstance ==
    pc = "formatted" =>
        /\ ret.kind \in {"N/A", "value"}
        /\ ret.kind = "N/A" <=> arg.type \notin {"int", "float", "bool"}
        /\ arg.type = "bool" => ret = FormatLoop(arg.digits, <<>>, 1)
        /\ arg.type = "bool" => ret.unit = "B"

\* None was formatted, and gave "N/A"
C6_Witness ==
    /\ pc = "formatted"
    /\ arg = PyNone
    /\ ret = NotAvailable

----------------------------------------------------------------------------
(* Claims about get_disk_info (checked under SpecDisk).                    *)

\* the partitions listed whose usage query raises
FailingPartitions(os) ==
    {i \in 1..Len(os.partitions) : os.usage[os.partitions[i]] # "ok"}

\* the only mounts whose usage query raises are partitions of the list
OnlyListedPartitionsFail(os) ==
    os.usage[RootMount] # "ok" =>
        \E i \in 1..Len(os.partitions) : os.partitions[i] = RootMount

\* C1 as stated: whenever M of the N listed partitions (M < N) raise an
\* access error on their usage query, get_disk_info returns, with exactly
\* N - M partition entries, whichever partitions fail (the root included).
C1_Original ==
    (pc = "done"
        /\ OnlyListedPartitionsFail(arg)
        /\ Cardinality(FailingPartitions(arg)) < Len(arg.partitions)) =>
        /\ ret.ok
        /\ Len(ret.value.partitions) =
              Len(arg.partitions) - Cardinality(FailingPartitions(arg))

----------------------------------------------------------------------------
(* Claims about get_network_info (checked under SpecNet).                  *)

\* C10: the interfaces sequence holds an entry for an interface if and only
\* if net_if_stats reported it up and its counters were present at its
\* lookup; the interfaces that are down or without counters are left out,
\* and leaving them out never raises: get_network_info raises only for the
\* missing total counters of line 115.
C10_InterfacesIffUpAndPresent ==
    pc = "done" =>
        /\ ret.ok <=> arg.total
        /\ ~ret.ok => (ret.exc = "AttributeError" /\ ret.line = 115)
        /\ ret.ok =>
            /\ \A n \in Ifaces :
                (\E i \in 1..Len(ret.value.interfaces) :
                        ret.value.interfaces[i].name = n)
                <=> (/\ \E j \in 1..Len(arg.stats) : arg.stats[j] = n
                     /\ arg.isup[n]
                     /\ arg.pernic[n])
            /\ \A i, j \in 1..Len(ret.value.interfaces) :
                i # j => ret.value.interfaces[i].name
                            # ret.value.interfaces[j].name

\* get_network_info returned with one interface left out because it is
\* down, one left out because its counters were absent, and one kept
C10_Witness ==
    /\ pc = "done"
    /\ ret.ok
    /\ Len(ret.value.interfaces) = 1
    /\ \E a, b \in Ifaces :
        /\ a # b
        /\ \E j \in 1..Len(arg.stats) : arg.stats[j] = a
        /\ \E j \in 1..Len(arg.stats) : arg.stats[j] = b
        /\ ~arg.isup[a]
        /\ arg.isup[b] /\ ~arg.pernic[b]

----------------------------------------------------------------------------
(* Claims about get_process_info(top_n) (checked under SpecProc).          *)

\* every process has a cpu_percent, and no two have the same
DistinctCpu(procs) ==
    /\ \A i \in 1..Len(procs) : procs[i].cpu_percent # CpuNone
    /\ \A i, j \in 1..Len(procs) :
        i # j => procs[i].cpu_percent # procs[j].cpu_percent

\* the number of enumerated processes with a cpu_percent above c
NumberAbove(procs, c) ==
    Cardinality({i \in 1..Len(procs) : procs[i].cpu_percent > c})

\* C4: for processes with distinct cpu_percent values and any top_n >= 0,
\* the list get_process_info(top_n) returns is sorted strictly descending by
\* cpu_percent, has at most top_n entries, and every entry is an enumerated
\* process whose cpu_percent is among the top_n highest.
C4_RankedAndTruncated ==
    (pc = "done" /\ DistinctCpu(arg.procs) /\ ret.ok) =>
        /\ \A i, j \in 1..Len(ret.value) :
            i < j => ret.value[i].cpu_percent > ret.value[j].cpu_percent
        /\ Len(ret.value) <= arg.top_n
        /\ \A i \in 1..Len(ret.value) :
            /\ \E k \in 1..Len(arg.procs) :
                /\ arg.procs[k].pid = ret.value[i].pid
                /\ arg.procs[k].cpu_percent = ret.value[i].cpu_percent
            /\ NumberAbove(arg.procs, ret.value[i].cpu_percent) < arg.top_n

\* three processes enumerated in ascending order of cpu_percent, and the
\* top two returned
C4_Witness ==
    /\ pc = "done"
    /\ DistinctCpu(arg.procs)
    /\ Len(arg.procs) = 3
    /\ arg.procs[1].cpu_percent < arg.procs[2].cpu_percent
    /\ arg.procs[2].cpu_percent < arg.procs[3].cpu_percent
    /\ arg.top_n = 2
    /\ ret.ok
    /\ Len(ret.value) = 2
    /\ ret.value[1].pid = 3

----------------------------------------------------------------------------
(* Claims about get_all_info and api_system_info (checked under Spec).     *)

SnapshotKeys ==
    {"timestamp", "system", "cpu", "memory", "disk", "network", "processes"}

\* get_process_info was the collector that ran last in this capture
ProcessesRan ==
    /\ pc \in {"returned", "raised", "responded"}
    /\ "procs" \in DOMAIN arg

VanishKinds == {"NoSuchProcess", "AccessDenied", "ZombieProcess"}

\* the processes among sel whose memory_info() raised one of VanishKinds
VanishedOf(sel) == {i \in 1..Len(sel) : sel[i].detail \in VanishKinds}

\* the selected processes that had vanished at their detail read
Vanished(procs, top_n) == VanishedOf(Selected(procs, top_n))

IsReadable(p) == p.detail = "ok"

Pids(seq) == [i \in 1..Len(seq) |-> seq[i].pid]

\* C2: when the selected processes that cannot be read have exited, become
\* zombies or become access-denied, get_process_info returns exactly the
\* other selected processes, in their order, and get_all_info returns the
\* snapshot holding them: neither raises.
C2_VanishedProcessDropped ==
    ProcessesRan =>
        LET sel == Selected(arg.procs, arg.top_n)
        IN  (\A i \in 1..Len(sel) : sel[i].detail \in {"ok"} \cup VanishKinds)
            =>
            /\ ret.ok
            /\ pc # "raised"
            /\ Pids(ret.value) = Pids(SelectSeq(sel, IsReadable))
            /\ \A i \in VanishedOf(sel) :
                \A j \in 1..Len(ret.value) : ret.value[j].pid # sel[i].pid
            /\ pc = "returned" => snapshot["processes"] = ret.value
            /\ pc = "responded" =>
                /\ response.status = 200
                /\ response.body["processes"] = ret.value

\* a capture in which a selected process had become a zombie returned the
\* other selected processes
C2_Witness ==
    /\ ProcessesRan
    /\ pc = "responded"
    /\ response.status = 200
    /\ \E i \in Vanished(arg.procs, arg.top_n) :
        Selected(arg.procs, arg.top_n)[i].detail = "ZombieProcess"
    /\ Len(ret.value) = DefaultTopN - 1

\* C3 as stated: the processes list of every snapshot has exactly
\* min(top_n, total_process_count) entries.
C3_Original ==
    (ProcessesRan /\ pc = "returned") =>
        Len(snapshot["processes"]) = Min(DefaultTopN, Len(arg.procs))

\* C3 amended: the processes list of every snapshot has
\* min(top_n, total_process_count) entries less one for every selected
\* process that had exited, become a zombie or become access-denied at its
\* detail read; it has exactly min(top_n, total_process_count) entries when
\* there is no such process.
C3_LengthLessVanished ==
    (ProcessesRan /\ pc = "returned") =>
        /\ Len(snapshot["processes"]) =
              Min(DefaultTopN, Len(arg.procs))
                  - Cardinality(Vanished(arg.procs, DefaultTopN))
        /\ Len(snapshot["processes"]) <= Min(DefaultTopN, Len(arg.procs))

\* a snapshot of a host with more than top_n processes, two of the selected
\* ones gone before their detail read
C3_Witness ==
    /\ ProcessesRan
    /\ pc = "returned"
    /\ Len(arg.procs) > DefaultTopN
    /\ Cardinality(Vanished(arg.procs, DefaultTopN)) = 2
    /\ Len(snapshot["processes"]) = DefaultTopN - 2

\* C7: every value get_all_info returns, and every body the handler
\* serialises, holds all seven top-level fields, whatever was dropped from
\* partitions, interfaces and processes.
C7_SevenFields ==
    /\ pc = "returned" => DOMAIN snapshot = SnapshotKeys
    /\ response.status = 200 => DOMAIN response.body = SnapshotKeys

\* a snapshot was returned with no partition, no interface and fewer
\* processes than were selected
C7_Witness ==
    /\ ProcessesRan
    /\ pc = "returned"
    /\ snapshot["disk"].partitions = <<>>
    /\ snapshot["network"].interfaces = <<>>
    /\ Vanished(arg.procs, DefaultTopN) # {}
    /\ Len(snapshot["processes"]) < Min(DefaultTopN, Len(arg.procs))

\* C8: when a collector raises, get_all_info stops there and returns
\* nothing: the values built so far are dropped, the exception reaches the
\* handler, and the request ends with an error and no body; a response that
\* carries a snapshot comes from a capture in which no collector raised.
C8_FailFast ==
    /\ ~ret.ok =>
        /\ pc \in {"raised", "responded"}
        /\ snapshot = <<>>
        /\ pc = "raised" => response = NoResponse
        /\ pc = "responded" => response = [status |-> 500, body |-> <<>>]
    /\ pc = "raised" => ~ret.ok
    /\ response.status = 200 => (ret.ok /\ DOMAIN response.body = SnapshotKeys)

\* a request failed because get_network_info raised after four collectors
\* had returned their values
C8_Witness ==
    /\ pc = "responded"
    /\ ~ret.ok
    /\ ret.line = 115
    /\ response.status = 500
    /\ response.body = <<>>

----------------------------------------------------------------------------
(* C13: the ranking value of a process and the order of ties.              *)

\* the value the claim says a cpu_percent is ranked as
RankedAs(cpu) == IF cpu = CpuNone THEN 0 ELSE cpu

\* the place at which the enumeration yielded the process with this pid
PlaceOf(procs, pid) == CHOOSE k \in 1..Len(procs) : procs[k].pid = pid

\* C13: in the list get_process_info returns, a process whose cpu_percent
\* is None is ranked as if it were 0 (no entry ranked lower comes before an
\* entry ranked higher), and two entries of equal ranking value are in the
\* order in which the enumeration yielded them.
C13_NoneAsZeroAndStable ==
    (pc = "done" /\ ret.ok) =>
        \A i, j \in 1..Len(ret.value) :
            i < j =>
                LET a == ret.value[i]
                    b == ret.value[j]
                IN  /\ RankedAs(a.cpu_percent) >= RankedAs(b.cpu_percent)
                    /\ RankedAs(a.cpu_percent) = RankedAs(b.cpu_percent) =>
                         PlaceOf(arg.procs, a.pid) < PlaceOf(arg.procs, b.pid)

\* a process without cpu_percent, one at 0 and one at 1 enumerated in this
\* order: the busy one is returned first, the other two tie and stay in
\* enumeration order
C13_Witness ==
    /\ pc = "done"
    /\ ret.ok
    /\ Len(arg.procs) = 3
    /\ arg.procs[1].cpu_percent = CpuNone
    /\ arg.procs[2].cpu_percent = 0
    /\ arg.procs[3].cpu_percent = 1
    /\ Len(ret.value) = 3
    /\ ret.value[1].pid = 3
    /\ ret.value[2].pid = 1
    /\ ret.value[2].cpu_percent = CpuNone
    /\ ret.value[3].pid = 2

----------------------------------------------------------------------------
(* Claims about get_cpu_info (checked under SpecCpu).                      *)

\* get_cpu_info is over, and no query failed in a way the collector has no
\* answer to
CpuCallOver == pc \in {"done", "raised"} /\ arg.fault = ""

\* C14: get_cpu_info never fails because the frequency cannot be reported:
\* in every run it returns, and its cpu_freq is the frequency read from the
\* OS or the marker "N/A", also when the two queries of the capture
\* disagree.
C14_Original ==
    CpuCallOver =>
        /\ ret.ok
        /\ \/ ret.value.cpu_freq = [kind |-> "N/A", current |-> 0]
           \/ /\ arg.freq_read.present
              /\ ret.value.cpu_freq =
                    [kind |-> "value", current |-> arg.freq_read.current]

\* the call took the aggregate sample and then the per-core sample, each
\* over an interval above zero, the first over before the second began, and
\* both over by now
BothSamplesTaken ==
    /\ Len(samples) = 2
    /\ ~samples[1].percpu
    /\ samples[2].percpu
    /\ \A i \in 1..2 :
        /\ samples[i].interval > 0
        /\ samples[i].end > samples[i].start
    /\ samples[1].end <= samples[2].start
    /\ samples[2].end <= now

\* C15: every call of get_cpu_info takes both blocking samples, each over a
\* non-zero interval and the aggregate one before the per-core one, none
\* skipped, and returns only after both.
C15_Original == CpuCallOver => BothSamplesTaken

\* what holds of the calls that return
ReturnedAfterBothSamples == pc = "done" => BothSamplesTaken

----------------------------------------------------------------------------
(* C12: the capture of a request (checked under Spec).                     *)

\* the capture of the request in progress has not begun
NotCalledYet == pc \in {"idle", "arrived"}

\* no query of the capture failed in a way the collectors have no answer to
NoLibraryFault == ret.ok \/ ret.exc # "OSError"

\* get_all_info is called once for the request, after it arrived, no
\* collector more than once, and the response is produced after the capture
\* is over; a response that carries a snapshot carries the one of this
\* request, made of one call of each collector
OneCapturePerRequest ==
    /\ NotCalledYet => calls = NoCalls
    /\ ~NotCalledYet => calls["get_all_info"] = 1
    /\ \A f \in Collectors : calls[f] <= 1
    /\ response # NoResponse => pc = "responded"
    /\ response.status = 200 =>
        /\ \A f \in Collectors : calls[f] = 1
        /\ response.body = snapshot
        /\ response.body["timestamp"] = clock

\* C12: every request triggers exactly one capture, one call of
\* get_all_info that calls each of the six collectors exactly once, begun
\* after the request arrived and over before the response is produced, and
\* the response is built from that capture only.
C12_Original ==
    /\ OneCapturePerRequest
    /\ (pc = "responded" /\ NoLibraryFault) =>
         \A f \in Collectors : calls[f] = 1

----------------------------------------------------------------------------
(* C11: captures on the shared SystemMonitor (checked under SpecShared).   *)

RECURSIVE EnumeratedAlone(_, _, _)
\* what process_iter yields from pid on, at this time, to a capture that no
\* other capture ran before or beside: the cache holds what this capture
\* itself put there
EnumeratedAlone(host, cache, pid) ==
    IF pid > MaxShared THEN <<>>
    ELSE <<Proc(pid, CpuPercentSinceLast(host, cache, pid, now), "ok")>>
         \o EnumeratedAlone(host, Remembered(host, cache, pid, now), pid + 1)

\* the "processes" value of that capture
CapturedAlone(host) ==
    GetProcessInfo(EnumeratedAlone(host, <<>>, 1), DefaultTopN)

\* C11: captures on the shared SystemMonitor are independent: on a host
\* whose state stays the same, every capture returns what it returns when
\* no other capture ran before it or runs beside it.
C11_Original ==
    \A t \in Threads : pc[t] = "done" => ret[t] = CapturedAlone(arg)

====
